---- MODULE Spec2Model ----
(***************************************************************************)
(* A model of src/bf.py: the recursive-descent parser                      *)
(* (CodeBlockNode.parse over a SourceCodeStack), the execution context     *)
(* (Context: tape, pointer, cycle budget, input and output handles) and    *)
(* the tree-walking engine (the exec methods of the node classes, all      *)
(* routed through Context.exec).                                           *)
(*                                                                         *)
(* A byte of the source is modelled by the one-character string of its     *)
(* glyph; "#" stands for any byte outside the eight tokens.  The Python    *)
(* call stack of the engine is the variable stack: one frame per active    *)
(* CodeBlockNode.exec (with the index of the next child) or WhileNode.exec.*)
(***************************************************************************)
EXTENDS Integers, Sequences, FiniteSets, TLC

(***************************************************************************)
(* Bounds of the model.                                                    *)
(***************************************************************************)
\* longest source enumerated exhaustively over the nine byte classes
MaxCodeLen == 3
\* largest num_cycles_limit a caller passes
MaxCycles == 8
\* largest buffer_size a caller passes
MaxTape == 3
\* longest input enumerated together with the exhaustive sources
MaxInputLen == 1

(***************************************************************************)
(* Small helpers on sequences.                                             *)
(***************************************************************************)
SeqsUpTo(S, n) == UNION {[1..k -> S] : k \in 0..n}

IsPrefix(s, t) == Len(s) <= Len(t) /\ SubSeq(t, 1, Len(s)) = s

Reverse(s) == [i \in 1..Len(s) |-> s[Len(s) + 1 - i]]

(***************************************************************************)
(* Source bytes.                                                           *)
(***************************************************************************)
LeafTokens == {".", ",", "+", "-", ">", "<"}

Tokens == LeafTokens \cup {"[", "]"}

\* "#" is the representative of the 248 bytes that are no token
Bytes == Tokens \cup {"#"}

(***************************************************************************)
(* SourceCodeStack: the source reversed, so that pop() yields the bytes    *)
(* front to back.                                                          *)
(***************************************************************************)
\* a stack that pops from the end of the source as it was given
SourceCodeStackUnreversed(c) == c

SourceCodeStack(c) == Reverse(c)

\* read_next_token: [token, the stack after the pop]
read_next_token(stk) ==
    [token |-> stk[Len(stk)], code |-> SubSeq(stk, 1, Len(stk) - 1)]

\* __bool__
HasTokens(stk) == Len(stk) > 0

(***************************************************************************)
(* Syntax tree.                                                            *)
(***************************************************************************)
LeafKind(token) ==
    CASE token = "." -> "PrintNode"
      [] token = "," -> "ReadNode"
      [] token = "+" -> "PlusNode"
      [] token = "-" -> "MinusNode"
      [] token = ">" -> "ForwardNode"
      [] token = "<" -> "BackwardNode"

LeafNode(token) == [kind |-> LeafKind(token)]

CodeBlockNode(child_nodes) == [kind |-> "CodeBlockNode", child_nodes |-> child_nodes]

WhileNode(code_block_node) == [kind |-> "WhileNode", code_block_node |-> code_block_node]

LeafKinds == {LeafKind(t) : t \in LeafTokens}

(***************************************************************************)
(* CodeBlockNode.parse.  The activations of the recursive method are the   *)
(* entries of a stack, innermost last; an entry is the list child_nodes of *)
(* its activation.  All activations pop the same SourceCodeStack.          *)
(***************************************************************************)
\* an if/elif chain without the branch for "]"
TokenClassNoClose(token) ==
    IF token \in LeafTokens THEN "leaf"
    ELSE IF token = "[" THEN "open"
    ELSE "error"

\* the class of a token in the if/elif chain of the while loop
TokenClass(token) ==
    IF token \in LeafTokens THEN "leaf"
    ELSE IF token = "[" THEN "open"
    ELSE IF token = "]" THEN "close"
    ELSE "error"

\* child_nodes.append(new_node) in the innermost activation
AppendChild(activations, new_node) ==
    [activations EXCEPT ![Len(activations)] = Append(@, new_node)]

\* return CodeBlockNode(child_nodes) in the innermost activation: the caller
\* is an outer activation, which wraps the block in a WhileNode and appends
\* it, or (returned = TRUE) the caller of the top-level parse
ParseReturn(activations) ==
    LET n == Len(activations)
        block == CodeBlockNode(activations[n])
    IN  IF n = 1
        THEN [returned |-> TRUE, block |-> block, activations |-> <<>>]
        ELSE [returned |-> FALSE, block |-> block,
              activations |-> AppendChild(SubSeq(activations, 1, n - 1),
                                          WhileNode(block))]

(***************************************************************************)
(* Input and output handles.  An input handle is None, an io text stream   *)
(* ("text": read yields str), an io binary stream ("binary": read yields   *)
(* bytes; BytesIO, sys.stdin.buffer) or an object of a class derived from  *)
(* typing.BinaryIO ("BinaryIO").  data is what is still unread: code       *)
(* points of a text stream, byte values of a binary one.  An output handle *)
(* holds what write() buffered (pending) and what flush() delivered to the *)
(* sink (sink).  Its kind is "binary" (BytesIO), "text" (StringIO: the     *)
(* sink receives chr(b), recorded as its code point b) or the encoding of  *)
(* an io.TextIOWrapper laid over a binary sink, which receives the bytes   *)
(* the characters encode to.                                               *)
(***************************************************************************)
\* sys.getrecursionlimit(): the deepest frame the interpreter allows; the
\* frame counts are those of CPython 3.11
RecursionLimit == 1000

\* the script itself calls brainfuck() from the frame of the module
MainDepth == 1

\* a callee whose frame would lie at depth d raises RecursionError
TooDeep(d) == d > RecursionLimit

\* CPython 3.11 specialises the instructions of a function once it has run
\* often enough.  Until then (cold) a call of a built-in function or method
\* and a comparison take one level of the recursion budget; the specialised
\* instruction takes none.  Whether an instruction is specialised depends on
\* what the process has run before, so every step is taken either way.
Generic(cold) == IF cold THEN 1 ELSE 0

InputNone == [kind |-> "None", data |-> <<>>]

InputFile(kind, data) == [kind |-> kind, data |-> data]

OutputFile(kind) == [kind |-> kind, pending |-> <<>>, sink |-> <<>>]

\* isinstance(f, typing.BinaryIO): the io classes do not derive from it
IsInstanceBinaryIO(f) == f.kind = "BinaryIO"

\* the encodings of the TextIOWrapper sinks
Encodings == {"ascii", "latin-1", "cp1252", "utf-8"}

\* isinstance(f, TextIO) or isinstance(f, TextIOWrapper) or isinstance(f, StringIO)
IsTextOutput(f) == f.kind = "text" \/ f.kind \in Encodings

\* chr(c), c in 0..255, has an encoding
Encodable(encoding, c) ==
    CASE encoding = "ascii"   -> c < 128
      [] encoding = "cp1252"  -> c < 128 \/ c >= 160
      [] encoding = "latin-1" -> TRUE
      [] encoding = "utf-8"   -> TRUE

\* chr(c).encode(encoding) of an encodable character
EncodeChar(encoding, c) ==
    IF encoding = "utf-8" /\ c >= 128
    THEN <<192 + (c \div 64), 128 + (c % 64)>>
    ELSE <<c>>

RECURSIVE EncodeAll(_, _)
EncodeAll(encoding, chars) ==
    IF chars = <<>> THEN <<>>
    ELSE EncodeChar(encoding, Head(chars)) \o EncodeAll(encoding, Tail(chars))

\* frames below Context.write that the wrapper's encoder needs to report
\* a character it cannot encode; the cp1252 encoder is a Python function
\* that calls a built-in
EncodeErrorDepth(encoding, cold) ==
    IF encoding = "cp1252" THEN 3 + Generic(cold) ELSE 2

\* frames below Context.write that the wrapper's encoder needs to encode
EncodeDepth(encoding, cold) ==
    IF encoding = "cp1252" THEN 2 + Generic(cold) ELSE 2

\* frames below Context.write that flush() of a wrapper needs
FlushDepth(encoding) == IF encoding = "utf-8" THEN 4 ELSE 3

\* file.read(n) with n >= 0: the items read and the handle after the read
FileRead(f, n) ==
    LET k == IF n <= Len(f.data) THEN n ELSE Len(f.data)
    IN  [items |-> SubSeq(f.data, 1, k),
         file  |-> [f EXCEPT !.data = SubSeq(f.data, k + 1, Len(f.data))]]

(***************************************************************************)
(* Context.  A context is a record of the instance attributes.  Operations *)
(* that can raise return the exception's name in error ("" for none).      *)
(***************************************************************************)
\* a constructor that has already spent one cycle of the budget
ContextInitCharged(input_file, output_file, buffer_size, num_cycles_limit) ==
    [buffer           |-> [i \in 0..(buffer_size - 1) |-> 0],
     ptr              |-> 0,
     input_file       |-> input_file,
     output_file      |-> output_file,
     num_cycles_left  |-> num_cycles_limit - 1]

\* Context.__init__
ContextInit(input_file, output_file, buffer_size, num_cycles_limit) ==
    [buffer           |-> [i \in 0..(buffer_size - 1) |-> 0],
     ptr              |-> 0,
     input_file       |-> input_file,
     output_file      |-> output_file,
     num_cycles_left  |-> num_cycles_limit]

BufferLen(ctx) == Cardinality(DOMAIN ctx.buffer)

\* Context.read(n), its frame at depth w: [bytes, ctx, error]
ContextRead(ctx, n, w, cold) ==
    IF TooDeep(w)
    THEN [bytes |-> <<>>, ctx |-> ctx, error |-> "RecursionError"]
    ELSE IF ctx.input_file.kind = "None"
    THEN [bytes |-> <<>>, ctx |-> ctx, error |-> ""]
    \* isinstance(self.input_file, BinaryIO)
    ELSE IF TooDeep(w + Generic(cold))
    THEN [bytes |-> <<>>, ctx |-> ctx, error |-> "RecursionError"]
    ELSE LET r == FileRead(ctx.input_file, n)
             c == [ctx EXCEPT !.input_file = r.file]
         IN  IF IsInstanceBinaryIO(ctx.input_file)
             \* the read method of the derived class is a call of its own,
             \* which reads the stream it wraps
             THEN IF TooDeep(w + 1 + Generic(cold))
                  THEN [bytes |-> <<>>, ctx |-> ctx, error |-> "RecursionError"]
                  ELSE [bytes |-> r.items, ctx |-> c, error |-> ""]
             \* the stream has been read when bytes(map(ord, data)) is called
             ELSE IF TooDeep(IF r.items = <<>> THEN w + 1 ELSE w + 2)
             THEN [bytes |-> <<>>, ctx |-> c, error |-> "RecursionError"]
             \* bytes(map(ord, data)): ord() of an int taken from a bytes object
             ELSE IF ctx.input_file.kind = "binary" /\ r.items # <<>>
             THEN [bytes |-> <<>>, ctx |-> c, error |-> "TypeError"]
             \* bytes() of a code point above 255
             ELSE IF \E i \in 1..Len(r.items) : r.items[i] > 255
             THEN [bytes |-> <<>>, ctx |-> c, error |-> "ValueError"]
             ELSE [bytes |-> r.items, ctx |-> c, error |-> ""]

\* a write that is never flushed
FlushNothing(f) == f

\* output_file.flush()
Flush(f) == [f EXCEPT !.pending = <<>>, !.sink = f.sink \o f.pending]

\* Context.write(bytes_), its frame at depth w: [ctx, error]
ContextWrite(ctx, bytes_, w, cold) ==
    LET f == ctx.output_file
        \* "".join(map(chr, bytes_)): the code point of each byte
        string_ == [i \in 1..Len(bytes_) |-> bytes_[i]]
        encoded == [f EXCEPT !.pending = @ \o EncodeAll(f.kind, string_)]
        written == [f EXCEPT !.pending = @ \o bytes_]
    IN  \* from io import TextIOWrapper, StringIO
        IF TooDeep(w + 2)
        THEN [ctx |-> ctx, error |-> "RecursionError"]
        ELSE IF f.kind \notin Encodings
        THEN [ctx |-> [ctx EXCEPT !.output_file = Flush(written)], error |-> ""]
        \* write() of a TextIOWrapper encodes the string
        ELSE IF \E i \in 1..Len(string_) : ~Encodable(f.kind, string_[i])
        THEN [ctx |-> ctx,
              error |-> IF TooDeep(w + EncodeErrorDepth(f.kind, cold))
                        THEN "RecursionError" ELSE "UnicodeEncodeError"]
        ELSE IF TooDeep(w + EncodeDepth(f.kind, cold))
        THEN [ctx |-> ctx, error |-> "RecursionError"]
        ELSE IF TooDeep(w + FlushDepth(f.kind))
        THEN [ctx |-> [ctx EXCEPT !.output_file = encoded],
              error |-> "RecursionError"]
        ELSE [ctx |-> [ctx EXCEPT !.output_file = Flush(encoded)], error |-> ""]

\* the current_value getter raises IndexError on an empty tape
HasCurrent(ctx) == ctx.ptr \in DOMAIN ctx.buffer

current_value(ctx) == ctx.buffer[ctx.ptr]

\* a setter that saturates at the ends of the byte range instead of wrapping
Clamp255(value) == IF value > 255 THEN 255 ELSE IF value < 0 THEN 0 ELSE value

\* value & 255
Wrap255(value) == value % 256

\* the current_value setter
set_current_value(ctx, value) == [ctx EXCEPT !.buffer[ctx.ptr] = Wrap255(value)]

\* a setter that stores the pointer as it is given
NoWrapPointer(value, len) == value

\* a setter that stops at the ends of the tape instead of wrapping
ClampPointer(value, len) ==
    IF value > len - 1 THEN len - 1 ELSE IF value < 0 THEN 0 ELSE value

\* value % len(self.buffer), len > 0
WrapPointer(value, len) == value % len

\* the pointer setter
set_pointer(ctx, value) == [ctx EXCEPT !.ptr = WrapPointer(value, BufferLen(ctx))]

(***************************************************************************)
(* The exec methods of the six leaf classes, their frame at depth e:       *)
(* [ctx, error].  The properties of the Context are calls of their own.    *)
(***************************************************************************)
Ok(ctx) == [ctx |-> ctx, error |-> ""]

Raise(ctx, name) == [ctx |-> ctx, error |-> name]

PlusNode_exec(ctx, e, cold) ==
    IF TooDeep(e + 1) THEN Raise(ctx, "RecursionError")
    ELSE IF ~HasCurrent(ctx) THEN Raise(ctx, "IndexError")
    ELSE Ok(set_current_value(ctx, current_value(ctx) + 1))

MinusNode_exec(ctx, e, cold) ==
    IF TooDeep(e + 1) THEN Raise(ctx, "RecursionError")
    ELSE IF ~HasCurrent(ctx) THEN Raise(ctx, "IndexError")
    ELSE Ok(set_current_value(ctx, current_value(ctx) - 1))

ForwardNode_exec(ctx, e, cold) ==
    IF TooDeep(e + 1) THEN Raise(ctx, "RecursionError")
    \* len(self.buffer) in the pointer setter
    ELSE IF TooDeep(e + 1 + Generic(cold)) THEN Raise(ctx, "RecursionError")
    ELSE IF BufferLen(ctx) = 0 THEN Raise(ctx, "ZeroDivisionError")
    ELSE Ok(set_pointer(ctx, ctx.ptr + 1))

BackwardNode_exec(ctx, e, cold) ==
    IF TooDeep(e + 1) THEN Raise(ctx, "RecursionError")
    \* len(self.buffer) in the pointer setter
    ELSE IF TooDeep(e + 1 + Generic(cold)) THEN Raise(ctx, "RecursionError")
    ELSE IF BufferLen(ctx) = 0 THEN Raise(ctx, "ZeroDivisionError")
    ELSE Ok(set_pointer(ctx, ctx.ptr - 1))

PrintNode_exec(ctx, e, cold) ==
    IF TooDeep(e + 1) THEN Raise(ctx, "RecursionError")
    ELSE IF ~HasCurrent(ctx) THEN Raise(ctx, "IndexError")
    ELSE ContextWrite(ctx, <<current_value(ctx)>>, e + 1, cold)

\* ord(context.read(1) or b"\0")
ReadNode_exec(ctx, e, cold) ==
    LET r == ContextRead(ctx, 1, e + 1, cold)
        value == IF r.bytes = <<>> THEN 0 ELSE r.bytes[1]
    IN  IF r.error # "" THEN Raise(r.ctx, r.error)
        ELSE IF ~HasCurrent(r.ctx) THEN Raise(r.ctx, "IndexError")
        ELSE Ok(set_current_value(r.ctx, value))

LeafExec(ctx, kind, e, cold) ==
    CASE kind = "PlusNode"     -> PlusNode_exec(ctx, e, cold)
      [] kind = "MinusNode"    -> MinusNode_exec(ctx, e, cold)
      [] kind = "ForwardNode"  -> ForwardNode_exec(ctx, e, cold)
      [] kind = "BackwardNode" -> BackwardNode_exec(ctx, e, cold)
      [] kind = "PrintNode"    -> PrintNode_exec(ctx, e, cold)
      [] kind = "ReadNode"     -> ReadNode_exec(ctx, e, cold)

(***************************************************************************)
(* Context.exec and the exec methods of the two composite classes.  A      *)
(* frame of the call stack is an active CodeBlockNode.exec (i is the index *)
(* of the child its for loop takes next) or an active WhileNode.exec.      *)
(***************************************************************************)
Frame(node, i) == [node |-> node, i |-> i]

\* a check made against the budget as it will be after the decrement
BudgetExhaustedAfter(num_cycles_left) == num_cycles_left - 1 = 0

\* if self.num_cycles_left == 0: raise TimeoutError
BudgetExhausted(num_cycles_left) == num_cycles_left = 0

\* a budget that pays two units for a node
ChargeDouble(node, num_cycles_left) == num_cycles_left - 2

\* a Context.exec that charges the leaf instructions only
ChargeLeafOnly(node, num_cycles_left) ==
    IF node.kind \in LeafKinds THEN num_cycles_left - 1 ELSE num_cycles_left

\* self.num_cycles_left -= 1, applied to whatever node is executed
Charge(node, num_cycles_left) == num_cycles_left - 1

\* node.exec(context), its frame at depth e: a leaf acts at once, a
\* composite node opens a frame; the test of a WhileNode calls the
\* current_value getter
NodeExec(ctx, stk, node, e, cold) ==
    IF TooDeep(e)
    THEN [ctx |-> ctx, stack |-> stk, error |-> "RecursionError"]
    ELSE IF node.kind \in LeafKinds
    THEN LET r == LeafExec(ctx, node.kind, e, cold)
         IN  [ctx |-> r.ctx, stack |-> stk, error |-> r.error]
    ELSE IF node.kind = "CodeBlockNode"
    THEN [ctx |-> ctx, stack |-> Append(stk, Frame(node, 1)), error |-> ""]
    \* the frame of WhileNode.exec is active when its test calls the getter
    ELSE [ctx |-> ctx, stack |-> Append(stk, Frame(node, 0)),
          error |-> IF TooDeep(e + 1) THEN "RecursionError" ELSE ""]

\* Context.exec(node), called with the call stack stk from a frame at depth d
ContextExec(ctx, stk, node, d, cold) ==
    IF TooDeep(d + 1)
    THEN [ctx |-> ctx, stack |-> stk, error |-> "RecursionError"]
    \* the comparison self.num_cycles_left == 0
    ELSE IF TooDeep(d + 1 + Generic(cold))
    THEN [ctx |-> ctx, stack |-> stk, error |-> "RecursionError"]
    ELSE IF BudgetExhausted(ctx.num_cycles_left)
    \* raise TimeoutError calls the exception class, one level deeper
    THEN [ctx |-> ctx, stack |-> stk,
          error |-> IF TooDeep(d + 2) THEN "RecursionError" ELSE "TimeoutError"]
    ELSE NodeExec([ctx EXCEPT !.num_cycles_left = Charge(node, @)], stk, node,
                  d + 2, cold)

\* a loop that stops as soon as the cell is 1 or 0
WhileAboveOne(value) == value > 1

\* a loop that runs its body whatever the cell holds
WhileAlways(value) == value >= 0

\* while context.current_value
WhileCondition(value) == value # 0

(***************************************************************************)
(* State of one call of brainfuck().                                       *)
(***************************************************************************)
VARIABLES
    code,              \* the source bytes passed by the caller
    caller_depth,      \* the depth of the frame that calls brainfuck()
    specialised,       \* the methods seen to run with specialised instructions
    input0,            \* the input handle as the caller passed it
    buffer_size,       \* the tape length passed by the caller
    num_cycles_limit,  \* the cycle limit passed by the caller
    tape0,             \* the tape when execution starts
    source_code,       \* the SourceCodeStack
    activations,       \* the active calls of CodeBlockNode.parse
    code_block,        \* the tree returned by the top-level parse
    context,           \* the Context
    stack,             \* the call stack of the engine
    pc,                \* "parse", "exec", "done" or the exception that ended the run
    nodes_run,         \* history: nodes whose exec method Context.exec has called
    leaves_run,        \* history: leaf nodes among them
    run_no,            \* 1 for the first call, 2 for a repeated call
    prev               \* history: outcome of the first call, for a repeated call

vars == <<code, caller_depth, specialised, input0, buffer_size, num_cycles_limit, tape0, source_code,
          activations, code_block, context, stack, pc, nodes_run, leaves_run, run_no, prev>>

NoTree == [kind |-> "None"]

NoPrev == [pc |-> "none", sink |-> <<>>, num_cycles_limit |-> 0]

(***************************************************************************)
(* The calls enumerated.                                                   *)
(***************************************************************************)
InputKinds == {"text", "binary", "BinaryIO"}

OutputKinds == {"text", "binary"} \cup Encodings

\* the byte the enumerated input handles deliver
SmallBytes == {65}

\* the handles a caller can pass as input_file
SmallInputs ==
    {InputNone} \cup
    {InputFile(k, d) : k \in InputKinds, d \in SeqsUpTo(SmallBytes, MaxInputLen)}

\* no handle, and what sys.stdin is: a text stream
DefaultInputs == {InputNone, InputFile("text", <<65>>)}

\* every source of up to MaxCodeLen bytes
ShortPrograms == SeqsUpTo(Bytes, MaxCodeLen)

\* longer sources: loops that end, that never end, that clear the cell in
\* the middle of a pass, nested loops, brackets without partner, reads
LongPrograms ==
    { <<"+", "[", "-", "]">>,
      <<"+", "[", "-", ">", "]">>,
      <<"+", "[", ">", "+", "]">>,
      <<"+", "[", "[", "-", "]", "]">>,
      <<"+", "[", "-", "]", "[", ".", "]", ".">>,
      <<"+", ".", "+", ".", "+", ".">>,
      <<"+", ".", "[", ".", "#">>,
      <<"[", "]", "]", "#">>,
      <<",", ".", "#">>,
      <<",", ".", ",", ".">>,
      <<",", "[", ".", ",", "]">>,
      <<",", "[", ".", "-", "]">> }

\* sources that read one byte and work on it
EchoPrograms ==
    { <<",", ".">>, <<",", "+">>, <<",", "-">>,
      <<",", "+", "-">>, <<",", "-", "+">> }

Call(c, f, o, b, n) ==
    [code |-> c, input_file |-> f, output_kind |-> o, buffer_size |-> b,
     num_cycles_limit |-> n, caller_depth |-> MainDepth]

\* the same call made from a frame at depth h; the constructors called by
\* brainfuck() need three frames below its own
CallAt(call, h) == [call EXCEPT !.caller_depth = h]

\* the Context and the SourceCodeStack are constructed; the tape is the one
\* Context.__init__ made (Start) or one the caller has loaded into it
StartOn(call, tape, no, p) ==
    /\ code = call.code
    /\ caller_depth = call.caller_depth
    /\ specialised = {}
    /\ input0 = call.input_file
    /\ buffer_size = call.buffer_size
    /\ num_cycles_limit = call.num_cycles_limit
    /\ context = [ContextInit(call.input_file, OutputFile(call.output_kind),
                              call.buffer_size, call.num_cycles_limit)
                    EXCEPT !.buffer = tape]
    /\ tape0 = tape
    /\ source_code = SourceCodeStack(call.code)
    /\ activations = <<>>
    /\ code_block = NoTree
    /\ stack = <<>>
    /\ pc = "parse"
    /\ nodes_run = 0
    /\ leaves_run = 0
    /\ run_no = no
    /\ prev = p

ZeroTape(b) == ContextInit(InputNone, OutputFile("text"), b, 0).buffer

Start(call, no, p) == StartOn(call, ZeroTape(call.buffer_size), no, p)

\* the calls of brainfuck() enumerated: every short source, without input,
\* on the shortest and the longest tape with every budget; the longer sources
\* with every input handle, tape and budget; every byte value read by the
\* echo sources, from every kind of handle and with every kind of sink
Init ==
    \/ \E c \in ShortPrograms, b \in {1, MaxTape}, n \in 0..MaxCycles :
          Start(Call(c, InputNone, "text", b, n), 1, NoPrev)
    \/ \E c \in LongPrograms \cup EchoPrograms, f \in SmallInputs,
          b \in 1..MaxTape, n \in 0..MaxCycles :
          Start(Call(c, f, "text", b, n), 1, NoPrev)
    \/ \E c \in EchoPrograms, k \in InputKinds, v \in 0..255, o \in OutputKinds :
          Start(Call(c, InputFile(k, <<v>>), o, 1, MaxCycles), 1, NoPrev)

(***************************************************************************)
(* Steps of a run.                                                         *)
(***************************************************************************)
Top == stack[Len(stack)]

Pop(stk) == SubSeq(stk, 1, Len(stk) - 1)

\* the history counters stop at CountCap, which no run of the enumerated
\* calls reaches
CountCap == 1024

Count(n) == IF n < CountCap THEN n + 1 ELSE n

\* the depth of the frame of brainfuck()
BrainfuckDepth == caller_depth + 1

\* the depth of the innermost exec method when the call stack is stk
ExecDepth(stk) == BrainfuckDepth + 2 * Len(stk)

\* the depth of the innermost activation of parse
ParseDepth(acts) == BrainfuckDepth + Len(acts)

\* no call made on behalf of Context.exec(node) lies more than seven frames
\* below the frame that calls it
NearLimit(d) == TooDeep(d + 7)

\* the forms of the instructions to tell apart: far from the limit the
\* generic and the specialised form act alike
Forms(d) == IF NearLimit(d) THEN BOOLEAN ELSE {FALSE}

\* the method whose built-in call decides the outcome of Context.exec(node)
\* when its generic and its specialised form differ
ExecSite(stk, node) ==
    IF TooDeep(ExecDepth(stk) + 2) THEN "Context.exec"
    ELSE CASE node.kind \in {"ForwardNode", "BackwardNode"} -> "Context.pointer"
           [] node.kind = "ReadNode"  -> "Context.read"
           [] node.kind = "PrintNode" -> "Context.write"
           [] OTHER -> "none"

\* the effect of one call of Context.exec(node) made with call stack stk; an
\* instruction that was seen specialised stays specialised, each method
\* on its own
DoContextExec(stk, node) ==
    \E cold \in Forms(ExecDepth(stk)) :
    LET r == ContextExec(context, stk, node, ExecDepth(stk), cold)
        other == ContextExec(context, stk, node, ExecDepth(stk), ~cold)
        site == ExecSite(stk, node)
        entered == r.error # "TimeoutError" /\ ~TooDeep(ExecDepth(stk) + 2)
    IN  /\ cold => site \notin specialised
        /\ specialised' = IF ~cold /\ NearLimit(ExecDepth(stk)) /\ r # other
                          THEN specialised \cup {site}
                          ELSE specialised
        /\ context' = r.ctx
        /\ stack' = r.stack
        /\ pc' = IF r.error = "" THEN "exec" ELSE r.error
        /\ nodes_run' = IF entered THEN Count(nodes_run) ELSE nodes_run
        /\ leaves_run' = IF entered /\ node.kind \in LeafKinds
                         THEN Count(leaves_run) ELSE leaves_run

\* the effect of a return of the innermost activation of parse; the
\* constructor of the CodeBlockNode is a call two frames below it
DoParseReturn(acts) ==
    LET r == ParseReturn(acts)
    IN  IF TooDeep(ParseDepth(acts) + 2)
        THEN /\ pc' = "RecursionError"
             /\ activations' = <<>>
             /\ UNCHANGED code_block
        ELSE /\ activations' = r.activations
             /\ code_block' = IF r.returned THEN r.block ELSE code_block
             /\ pc' = IF r.returned THEN "start" ELSE "parse"

\* brainfuck() calls CodeBlockNode.parse(code = source_code)
ParseCall ==
    /\ pc = "parse"
    /\ activations = <<>>
    /\ activations' = << <<>> >>
    /\ UNCHANGED <<code, caller_depth, specialised, input0, buffer_size, num_cycles_limit, tape0,
                   source_code, code_block, context, stack, pc, nodes_run,
                   leaves_run, run_no, prev>>

\* one pass of the while loop of parse: a token is read and dispatched
ParseToken ==
    /\ pc = "parse"
    /\ activations # <<>>
    /\ HasTokens(source_code)
    /\ LET r == read_next_token(source_code)
           class == TokenClass(r.token)
       IN  \* read_next_token has popped the byte when it calls bytes(),
           \* unless the call of pop() itself is one level too deep
           /\ IF TooDeep(ParseDepth(activations) + 2)
              THEN /\ \E cold \in BOOLEAN :
                         source_code' = IF cold THEN source_code ELSE r.code
                   /\ pc' = "RecursionError"
                   /\ activations' = <<>>
                   /\ UNCHANGED code_block
              ELSE /\ source_code' = r.code
                   /\ CASE class = "leaf" ->
                          /\ activations' = AppendChild(activations, LeafNode(r.token))
                          /\ UNCHANGED <<code_block, pc>>
                     [] class = "open" ->
                          /\ activations' = Append(activations, <<>>)
                          /\ UNCHANGED <<code_block, pc>>
                     [] class = "close" ->
                          DoParseReturn(activations)
                     [] class = "error" ->
                          /\ pc' = "SyntaxError"
                          /\ activations' = <<>>
                          /\ UNCHANGED code_block
    /\ UNCHANGED <<code, caller_depth, specialised, input0, buffer_size, num_cycles_limit, tape0,
                   context, stack, nodes_run, leaves_run, run_no, prev>>

\* the while loop of parse ends because the SourceCodeStack is empty
ParseEnd ==
    /\ pc = "parse"
    /\ activations # <<>>
    /\ ~HasTokens(source_code)
    /\ DoParseReturn(activations)
    /\ UNCHANGED <<code, caller_depth, specialised, input0, buffer_size, num_cycles_limit, tape0,
                   source_code, context, stack, nodes_run, leaves_run, run_no,
                   prev>>

\* context.exec(code_block)
ExecTree ==
    /\ pc = "start"
    /\ DoContextExec(<<>>, code_block)
    /\ UNCHANGED <<code, caller_depth, input0, buffer_size, num_cycles_limit, tape0,
                   source_code, activations, code_block, run_no, prev>>

\* CodeBlockNode.exec: the for loop takes the next child
BlockNext ==
    /\ pc = "exec"
    /\ stack # <<>>
    /\ Top.node.kind = "CodeBlockNode"
    /\ Top.i <= Len(Top.node.child_nodes)
    /\ DoContextExec(Append(Pop(stack), Frame(Top.node, Top.i + 1)),
                     Top.node.child_nodes[Top.i])
    /\ UNCHANGED <<code, caller_depth, input0, buffer_size, num_cycles_limit, tape0,
                   source_code, activations, code_block, run_no, prev>>

\* CodeBlockNode.exec: the for loop is over, the method returns
BlockReturn ==
    /\ pc = "exec"
    /\ stack # <<>>
    /\ Top.node.kind = "CodeBlockNode"
    /\ Top.i > Len(Top.node.child_nodes)
    /\ stack' = Pop(stack)
    /\ pc' = IF Len(stack) = 1 THEN "done" ELSE "exec"
    /\ UNCHANGED <<code, caller_depth, specialised, input0, buffer_size, num_cycles_limit, tape0,
                   source_code, activations, code_block, context, nodes_run,
                   leaves_run, run_no, prev>>

\* WhileNode.exec: the condition holds, the body is executed
WhileIterate ==
    /\ pc = "exec"
    /\ stack # <<>>
    /\ Top.node.kind = "WhileNode"
    /\ HasCurrent(context)
    /\ WhileCondition(current_value(context))
    /\ DoContextExec(stack, Top.node.code_block_node)
    /\ UNCHANGED <<code, caller_depth, input0, buffer_size, num_cycles_limit, tape0,
                   source_code, activations, code_block, run_no, prev>>

\* WhileNode.exec: the condition fails, the method returns
WhileExit ==
    /\ pc = "exec"
    /\ stack # <<>>
    /\ Top.node.kind = "WhileNode"
    /\ HasCurrent(context)
    /\ ~WhileCondition(current_value(context))
    /\ stack' = Pop(stack)
    /\ pc' = "exec"
    /\ UNCHANGED <<code, caller_depth, specialised, input0, buffer_size, num_cycles_limit, tape0,
                   source_code, activations, code_block, context, nodes_run,
                   leaves_run, run_no, prev>>

Next ==
    \/ ParseCall
    \/ ParseToken
    \/ ParseEnd
    \/ ExecTree
    \/ BlockNext
    \/ BlockReturn
    \/ WhileIterate
    \/ WhileExit

Spec == Init /\ [][Next]_vars

Terminated == pc \notin {"parse", "start", "exec"}

\* the scheduler is the Python interpreter: a run that can step does step
InitLive ==
    \/ \E c \in ShortPrograms, n \in 0..MaxCycles :
          Start(Call(c, InputNone, "text", 1, n), 1, NoPrev)
    \/ \E c \in LongPrograms, f \in DefaultInputs, n \in 0..MaxCycles :
          Start(Call(c, f, "text", MaxTape, n), 1, NoPrev)

FairSpec == InitLive /\ [][Next]_vars /\ WF_vars(Next)

(***************************************************************************)
(* Callers that pass any integer as buffer_size and num_cycles_limit and a  *)
(* text stream that holds a character beyond the byte range, all of them   *)
(* called from the module's own frame.  A buffer_size                      *)
(* <= 0 makes bytearray([0]) * buffer_size the empty tape.  A negative     *)
(* limit never runs out, and a source whose loop never ends then never     *)
(* returns: the negative limits are enumerated with the sources that have  *)
(* no loop and with the longer sources, whose loops all end.               *)
(***************************************************************************)
\* WhileNode.exec: the current_value getter raises IndexError on an empty tape
WhileRaise ==
    /\ pc = "exec"
    /\ stack # <<>>
    /\ Top.node.kind = "WhileNode"
    /\ ~HasCurrent(context)
    /\ pc' = "IndexError"
    /\ UNCHANGED <<code, caller_depth, specialised, input0, buffer_size, num_cycles_limit, tape0,
                   source_code, activations, code_block, context, stack,
                   nodes_run, leaves_run, run_no, prev>>

NextAny == Next \/ WhileRaise

NegativeLimits == {-2, -1}

WideInputs == {InputFile("text", <<256>>), InputFile("text", <<65, 256>>)}

\* a source without a loop
LoopFree(c) == \A i \in 1..Len(c) : c[i] # "["

\* the callers whose frame leaves brainfuck() between 3 and DeepSpan - 1
\* frames; the constructors called by brainfuck() need three
DeepSpan == 14

DeepCallers == (RecursionLimit - DeepSpan)..(RecursionLimit - 4)

\* a byte that every encoding takes and one that ascii and cp1252 refuse
DeepBytes == {65, 129}

InitAny ==
    \/ \E c \in ShortPrograms, b \in {-1, 0}, n \in 0..MaxCycles :
          Start(Call(c, InputNone, "text", b, n), 1, NoPrev)
    \/ \E c \in {p \in ShortPrograms : LoopFree(p)} \cup LongPrograms,
          n \in NegativeLimits :
          Start(Call(c, InputNone, "text", 1, n), 1, NoPrev)
    \/ \E c \in LongPrograms \cup EchoPrograms, f \in WideInputs \cup SmallInputs,
          b \in {0, 1}, n \in NegativeLimits \cup {MaxCycles} :
          Start(Call(c, f, "text", b, n), 1, NoPrev)

SpecAny == InitAny /\ [][NextAny]_vars

(* Callers that are themselves deep in the interpreter's stack: every      *)
(* limit of the budget, so that a budget runs out next to the recursion    *)
(* limit, and every kind of stream.                                        *)
InitDeep ==
    \/ \E c \in ShortPrograms \cup LongPrograms, h \in DeepCallers,
          n \in 0..MaxCycles :
          Start(CallAt(Call(c, InputNone, "text", 1, n), h), 1, NoPrev)
    \/ \E c \in EchoPrograms, k \in InputKinds, v \in DeepBytes,
          o \in OutputKinds, h \in DeepCallers :
          Start(CallAt(Call(c, InputFile(k, <<v>>), o, 1, MaxCycles), h), 1, NoPrev)

SpecDeep == InitDeep /\ [][Next]_vars

(***************************************************************************)
(* A caller that loads the tape of a Context before it executes the tree.  *)
(***************************************************************************)
TapeBytes == {0, 1, 3, 5}

TapePrograms ==
    { <<"[", ".", ">", "]">>,
      <<"[", "-", ">", "]">>,
      <<"[", "-", "]">>,
      <<"[", ">", "]", "+">>,
      <<"[", ".", "#">> }

\* a budget that lets [.>] walk over the whole tape
TapeBudget == 3 * MaxTape

InitTape ==
    \E c \in TapePrograms, b \in 1..MaxTape, n \in 0..TapeBudget :
        \E tape \in [0..(b - 1) -> TapeBytes] :
            StartOn(Call(c, InputNone, "text", b, n), tape, 1, NoPrev)

SpecTape == InitTape /\ [][Next]_vars

(***************************************************************************)
(* A caller that, after a run has ended, calls brainfuck() again with the  *)
(* same source, input and tape length and a cycle limit that is no less.   *)
(***************************************************************************)
Rerun ==
    /\ Terminated
    /\ run_no = 1
    /\ \E m \in num_cycles_limit..MaxCycles :
          /\ context' = ContextInit(input0, OutputFile(context.output_file.kind),
                                    buffer_size, m)
          /\ num_cycles_limit' = m
    /\ source_code' = SourceCodeStack(code)
    /\ activations' = <<>>
    /\ code_block' = NoTree
    /\ stack' = <<>>
    /\ pc' = "parse"
    /\ nodes_run' = 0
    /\ leaves_run' = 0
    /\ run_no' = 2
    /\ prev' = [pc |-> pc, sink |-> context.output_file.sink,
                num_cycles_limit |-> num_cycles_limit]
    /\ UNCHANGED <<code, caller_depth, specialised, input0, buffer_size, tape0>>

NextRerun == Next \/ Rerun

\* the bytes that decide what a run prints and how long it runs
RerunBytes == {"+", "-", ".", ",", "[", "]"}

InitRerun ==
    \/ \E c \in SeqsUpTo(RerunBytes, MaxCodeLen), n \in 0..MaxCycles :
          Start(Call(c, InputFile("text", <<65>>), "text", 1, n), 1, NoPrev)
    \/ \E c \in LongPrograms, f \in DefaultInputs, n \in 0..MaxCycles :
          Start(Call(c, f, "text", MaxTape, n), 1, NoPrev)

SpecRerun == InitRerun /\ [][NextRerun]_vars

(***************************************************************************)
(* Properties.                                                             *)
(***************************************************************************)
Sink == context.output_file.sink

HasByte(c, b) == \E i \in 1..Len(c) : c[i] = b

\* C1: with a cycle limit >= 0 every run of brainfuck() ends; a Loop that
\* never clears its cell, also one with an empty body, ends the run with
\* TimeoutError when the budget is used up.
C1_RunEnds == <>Terminated

\* C1 witness: +[] was stopped by TimeoutError after passes of its empty body.
C1_EmptyLoopStopped ==
    /\ code = <<"+", "[", "]">>
    /\ pc = "TimeoutError"
    /\ nodes_run = num_cycles_limit
    /\ nodes_run >= 5
    /\ leaves_run = 1

\* C2 as stated: only leaf instructions are charged, so a run that ends
\* normally leaves limit - (leaves executed), and a run is stopped by
\* TimeoutError only with limit leaves executed.
C2_LeavesOnlyCharged ==
    /\ pc = "done" => context.num_cycles_left = num_cycles_limit - leaves_run
    /\ pc = "TimeoutError" => leaves_run = num_cycles_limit

\* C2 amended: every node Context.exec runs is charged one unit, Blocks and
\* Loops as well as leaves: the budget left is always limit - (nodes run), a
\* run is stopped by TimeoutError exactly when it has run limit nodes, and
\* a run that ends normally has paid for its top-level Block too.
C2_EveryNodeCharged ==
    /\ context.num_cycles_left = num_cycles_limit - nodes_run
    /\ pc = "TimeoutError" => nodes_run = num_cycles_limit
    /\ pc = "done" => nodes_run >= leaves_run + 1

\* C2 witness: a run with a Loop ended normally having run more Blocks and
\* Loops than leaves.
C2_LoopPaid ==
    /\ code = <<"+", "[", "-", "]">>
    /\ pc = "done"
    /\ leaves_run = 2
    /\ nodes_run = 5
    /\ context.num_cycles_left = num_cycles_limit - 5

\* C3: a source with a byte outside the eight tokens, wherever it stands,
\* ends with SyntaxError and nothing written to the sink.
C3_BadByteRejected ==
    (Terminated /\ HasByte(code, "#")) => (pc = "SyntaxError" /\ Sink = <<>>)

Untouched ==
    /\ nodes_run = 0
    /\ \A i \in DOMAIN context.buffer : context.buffer[i] = 0
    /\ context.ptr = 0
    /\ context.num_cycles_left = num_cycles_limit
    /\ context.input_file = input0
    /\ context.output_file.pending = <<>>
    /\ Sink = <<>>
    /\ stack = <<>>

\* C4: while the source is being parsed, and in every run that ends with
\* SyntaxError, no node has been executed: the tape is all zero, the pointer
\* is 0, the budget is the limit, no input was consumed, no output written.
C4_NothingRunBeforeParsed == pc \in {"parse", "SyntaxError"} => Untouched

\* C4 witness: ,.# with a byte of input and budget ended with SyntaxError
\* after its Read and Print had been parsed.
C4_SyntaxErrorAfterTokens ==
    /\ code = <<",", ".", "#">>
    /\ input0 = InputFile("text", <<65>>)
    /\ num_cycles_limit >= 3
    /\ pc = "SyntaxError"
    /\ source_code = <<>>

\* the byte a handle that reads correctly delivers first
FirstInput == input0.data[1]

ReadsByte ==
    /\ input0.kind \in {"text", "BinaryIO"}
    /\ Len(input0.data) >= 1
    /\ FirstInput <= 255

Cell == context.buffer[context.ptr]

\* C5: for every v in 0..255 read into the current cell, Increment then
\* Decrement and Decrement then Increment restore v; Increment gives v + 1
\* but 0 at 255, Decrement gives v - 1 but 255 at 0.
C5_IncDecRestore ==
    (pc = "done" /\ ReadsByte) =>
        /\ code = <<",", "+", "-">> => Cell = FirstInput
        /\ code = <<",", "-", "+">> => Cell = FirstInput
        /\ code = <<",", "+">> => Cell = IF FirstInput = 255 THEN 0 ELSE FirstInput + 1
        /\ code = <<",", "-">> => Cell = IF FirstInput = 0 THEN 255 ELSE FirstInput - 1

\* C5 witness: 255 was read, incremented over the boundary and decremented
\* back.
C5_RestoredOverBoundary ==
    /\ code = <<",", "+", "-">>
    /\ input0 = InputFile("text", <<255>>)
    /\ pc = "done"
    /\ leaves_run = 3
    /\ Cell = 255

\* the leaf that the innermost CodeBlockNode.exec takes next
AtLeaf(kind) ==
    /\ pc = "exec"
    /\ stack # <<>>
    /\ Top.node.kind = "CodeBlockNode"
    /\ Top.i <= Len(Top.node.child_nodes)
    /\ Top.node.child_nodes[Top.i].kind = kind

\* the step runs that leaf to its end
RunsLeaf(kind) == AtLeaf(kind) /\ leaves_run' = leaves_run + 1 /\ pc' = "exec"

\* C6: on a tape of length L >= 1 MoveRight takes the pointer from L - 1 to
\* 0 and from any other index p to p + 1; MoveLeft takes it from 0 to L - 1
\* and from any other index p to p - 1.
C6_PointerWraps ==
    [][ /\ RunsLeaf("ForwardNode") =>
             context'.ptr = IF context.ptr = buffer_size - 1 THEN 0
                            ELSE context.ptr + 1
        /\ RunsLeaf("BackwardNode") =>
             context'.ptr = IF context.ptr = 0 THEN buffer_size - 1
                            ELSE context.ptr - 1 ]_vars

\* C6 witness: on the longest tape MoveLeft from index 0 has landed on the
\* last index.
C6_WrappedLeft ==
    /\ code = <<"<">>
    /\ buffer_size = MaxTape
    /\ pc = "done"
    /\ leaves_run = 1
    /\ context.ptr = MaxTape - 1

\* the innermost frame is the body Block of a Loop, in the middle of a pass
InPass ==
    /\ pc = "exec"
    /\ Len(stack) >= 2
    /\ Top.node.kind = "CodeBlockNode"
    /\ stack[Len(stack) - 1].node.kind = "WhileNode"

AtLoopTest ==
    /\ pc = "exec"
    /\ stack # <<>>
    /\ Top.node.kind = "WhileNode"

\* C7: a Loop whose test finds the current cell = 0 returns without running
\* its body; a Loop whose test finds it nonzero starts a pass; a pass that has
\* started runs the next child whatever the current cell holds (unless the
\* budget stops the run), and the Loop is back at its test only when the
\* pass has run every child.
C7_LoopTestsBetweenPasses ==
    [][ /\ (AtLoopTest /\ Cell = 0) =>
             /\ stack' = Pop(stack)
             /\ nodes_run' = nodes_run
             /\ context' = context
        /\ (AtLoopTest /\ Cell # 0) =>
             \/ pc' = "TimeoutError"
             \/ /\ stack' = Append(stack, Frame(Top.node.code_block_node, 1))
                /\ nodes_run' = nodes_run + 1
        /\ (InPass /\ Top.i <= Len(Top.node.child_nodes)) =>
             \/ pc' \notin {"exec", "done"}
             \/ /\ nodes_run' = nodes_run + 1
                /\ Len(stack') >= Len(stack)
                /\ stack'[Len(stack)] = Frame(Top.node, Top.i + 1)
        /\ (InPass /\ Len(stack') < Len(stack)) =>
             Top.i = Len(Top.node.child_nodes) + 1 ]_vars

\* C7 witness: the current cell has become 0 in the middle of a pass of
\* +[->] and a child of the body is still to run.
C7_ZeroInMidPass ==
    /\ code = <<"+", "[", "-", ">", "]">>
    /\ InPass
    /\ Top.i = 2
    /\ Cell = 0
    /\ leaves_run = 2
    /\ context.num_cycles_left > 0

\* C8: Read stores the next unread input byte, or 0 when no input remains or
\* no handle was supplied, and the run goes on: ,. with ample budget ends
\* normally having written exactly the first input byte, or 0 on no input.
C8_EchoesFirstByte ==
    (Terminated /\ code = <<",", ".">> /\ num_cycles_limit >= 3
        /\ \A i \in 1..Len(input0.data) : input0.data[i] <= 255) =>
        /\ pc = "done"
        /\ Sink = IF input0.data = <<>> THEN <<0>> ELSE <<FirstInput>>
        /\ Cell = Sink[1]
        /\ context.input_file.data = SubSeq(input0.data, 2, Len(input0.data))

\* cell k of the loaded tape is its first zero cell
FirstZero(k) ==
    /\ k \in DOMAIN tape0
    /\ tape0[k] = 0
    /\ \A j \in 0..(k - 1) : tape0[j] # 0

\* C9: [.>] run with ample budget on a tape whose cells 0..k-1 are nonzero
\* and whose cell k is 0 ends normally, has written exactly the cells 0..k-1
\* in index order, has left the tape as it was and the pointer on k.
C9_PrintsUpToFirstZero ==
    \A k \in DOMAIN tape0 :
        (/\ code = <<"[", ".", ">", "]">>
         /\ FirstZero(k)
         /\ num_cycles_limit >= 3 * k + 2
         /\ Terminated) =>
            /\ pc = "done"
            /\ Sink = [i \in 1..k |-> tape0[i - 1]]
            /\ context.buffer = tape0
            /\ context.ptr = k

\* C9 witness: on the tape 3, 5, 0 the run has ended with output 3, 5 and
\* the pointer on 2.
C9_ThreeFive ==
    /\ code = <<"[", ".", ">", "]">>
    /\ buffer_size = 3
    /\ tape0[0] = 3 /\ tape0[1] = 5 /\ tape0[2] = 0
    /\ pc = "done"
    /\ Sink = <<3, 5>>
    /\ context.ptr = 2

\* C10: a second run with the same source, input and tape length and a
\* cycle limit m >= n has written a sequence of which the output of the run
\* with limit n is a prefix; the two are equal when the run with limit n
\* ended normally, and the outcome is the same too when m = n.
C10_OutputPrefix ==
    (run_no = 2 /\ Terminated) =>
        /\ IsPrefix(prev.sink, Sink)
        /\ prev.pc = "done" => (pc = "done" /\ Sink = prev.sink)
        /\ prev.num_cycles_limit = num_cycles_limit =>
               (pc = prev.pc /\ Sink = prev.sink)

\* C10 witness: the run with the smaller limit was stopped by TimeoutError
\* after it had written a byte, and the run with the larger limit wrote more.
C10_AbortedPrefix ==
    /\ run_no = 2
    /\ Terminated
    /\ prev.pc = "TimeoutError"
    /\ prev.num_cycles_limit < num_cycles_limit
    /\ Len(prev.sink) >= 1
    /\ Len(Sink) > Len(prev.sink)

(***************************************************************************)
(* The tape, the pointer and the cells.                                    *)
(***************************************************************************)
\* C11: in every state of a run the tape has the length the caller
\* configured as buffer_size, the pointer is an index of the tape
\* (0 <= ptr < tape length), and every cell holds a value in 0..255.
C11_TapeInvariants ==
    /\ BufferLen(context) = buffer_size
    /\ context.ptr \in 0..(BufferLen(context) - 1)
    /\ \A i \in DOMAIN context.buffer : context.buffer[i] \in 0..255

\* C11 witness: MoveLeft from index 0 and Decrement of a cell at 0 have both
\* wrapped on the longest tape, and the run is over.
C11_WrappedBothWays ==
    /\ pc = "done"
    /\ code = <<"<", "-">>
    /\ buffer_size = MaxTape
    /\ context.ptr = MaxTape - 1
    /\ Cell = 255
    /\ \A i \in DOMAIN context.buffer : i # context.ptr => context.buffer[i] = 0

(***************************************************************************)
(* The cycle budget.                                                       *)
(***************************************************************************)
\* C12: for every integer cycle limit the budget never increases during a
\* run, it has dropped by exactly 1 for each node that Context.exec has run,
\* and no decrement of a run takes it below zero (the run is stopped with
\* TimeoutError instead).
C12_BudgetNeverBelowZero ==
    /\ context.num_cycles_left <= num_cycles_limit
    /\ context.num_cycles_left = num_cycles_limit - nodes_run
    /\ nodes_run > 0 => context.num_cycles_left >= 0

(***************************************************************************)
(* The ways a run ends.                                                    *)
(***************************************************************************)
\* C13: every run ends in exactly one of three ways: normally, with
\* TimeoutError, or with SyntaxError; a run that is over is in no other
\* failure state.
C13_ThreeOutcomes ==
    Terminated => pc \in {"done", "TimeoutError", "SyntaxError"}

(***************************************************************************)
(* What the top-level parse returns.                                       *)
(***************************************************************************)
\* C14: when the top-level parse has returned without error the token source
\* is empty: every byte of the source was consumed.
C14_ParseConsumesAll ==
    pc = "start" => ~HasTokens(source_code)

OnlyTokens(c) == \A i \in 1..Len(c) : c[i] \in Tokens

Leaves(c) == [i \in 1..Len(c) |-> LeafNode(c[i])]

HasOpen(c) == \E i \in 1..Len(c) : c[i] = "["

FirstOpen(c) == CHOOSE i \in 1..Len(c) : c[i] = "[" /\ \A j \in 1..(i - 1) : c[j] # "["

\* the tree of a source of leaf tokens and "[" only: each "[" opens a Loop
\* that wraps all that follows it
RECURSIVE OpenNest(_)
OpenNest(c) ==
    IF ~HasOpen(c) THEN CodeBlockNode(Leaves(c))
    ELSE LET j == FirstOpen(c)
         IN  CodeBlockNode(Append(Leaves(SubSeq(c, 1, j - 1)),
                                  WhileNode(OpenNest(SubSeq(c, j + 1, Len(c))))))

\* C15: a source of the eight tokens only never fails to parse and parses
\* to a Block; a source that runs out inside an open "[" gives a Loop that
\* wraps the nodes collected so far; the source "]" gives the empty Block.
C15_UnmatchedBracketsParse ==
    /\ OnlyTokens(code) => pc # "SyntaxError"
    /\ (OnlyTokens(code) /\ pc # "parse") => code_block.kind = "CodeBlockNode"
    /\ (pc = "start" /\ code = <<"]">>) => code_block = CodeBlockNode(<<>>)
    /\ (pc = "start" /\ OnlyTokens(code) /\ ~HasByte(code, "]")) =>
           code_block = OpenNest(code)

\* C15 witness: the source +[- has been parsed; the Loop holds the Decrement
\* read before the source ran out.
C15_OpenLoopWrapped ==
    /\ pc = "start"
    /\ code = <<"+", "[", "-">>
    /\ ~HasTokens(source_code)
    /\ code_block = CodeBlockNode(<<LeafNode("+"),
                        WhileNode(CodeBlockNode(<<LeafNode("-")>>))>>)

(***************************************************************************)
(* Context.exec, one call at a time.                                       *)
(***************************************************************************)
\* the next step of the run is a call of Context.exec
CallsContextExec ==
    \/ pc = "start"
    \/ /\ pc = "exec"
       /\ stack # <<>>
       /\ Top.node.kind = "CodeBlockNode"
       /\ Top.i <= Len(Top.node.child_nodes)
    \/ AtLoopTest /\ HasCurrent(context) /\ Cell # 0

\* C16: Context.exec called with budget 0 raises TimeoutError before the
\* node runs and changes nothing; called with a budget > 0 it decrements the
\* budget by exactly one and runs the node.  So TimeoutError stops a run
\* only when it has run as many nodes as the limit and reaches another one:
\* a run of exactly as many nodes as the limit ends normally with budget 0.
C16_ExecChecksThenCharges ==
    /\ [][ CallsContextExec =>
             IF context.num_cycles_left = 0
             THEN /\ pc' = "TimeoutError"
                  /\ context' = context
                  /\ nodes_run' = nodes_run
                  /\ leaves_run' = leaves_run
             ELSE /\ context'.num_cycles_left = context.num_cycles_left - 1
                  /\ nodes_run' = nodes_run + 1
                  /\ pc' # "TimeoutError" ]_vars
    /\ [](pc = "TimeoutError" =>
             nodes_run = num_cycles_limit /\ context.num_cycles_left = 0)
    /\ [](pc = "done" =>
             context.num_cycles_left = num_cycles_limit - nodes_run)

\* C16 witness: a run with a Loop has run exactly as many nodes as its limit
\* and ended normally with the budget at 0.
C16_ExactBudget ==
    /\ pc = "done"
    /\ code = <<"+", "[", "-", "]">>
    /\ leaves_run = 2
    /\ nodes_run = num_cycles_limit
    /\ context.num_cycles_left = 0

(***************************************************************************)
(* Read from a binary handle.                                              *)
(***************************************************************************)
\* C17: Read stores the same value from a binary handle as from a text
\* handle that delivers the same bytes: once the first instruction `,` has
\* run on a handle that holds the byte b, the current cell is b and no
\* error was raised.
C17_BinaryReadsLikeText ==
    ( /\ Len(code) >= 1
      /\ code[1] = ","
      /\ input0.kind \in {"binary", "text"}
      /\ Len(input0.data) >= 1
      /\ FirstInput \in 0..255
      /\ leaves_run = 1 ) =>
        /\ pc \in {"exec", "done", "TimeoutError"}
        /\ Cell = FirstInput

(***************************************************************************)
(* What a leaf leaves alone.                                               *)
(***************************************************************************)
\* Context.exec runs that leaf in the step, to its end or to an exception
RanLeaf(kind) == AtLeaf(kind) /\ leaves_run' = leaves_run + 1

\* the cells that are not under the pointer keep their values
OtherCellsKept ==
    /\ DOMAIN context'.buffer = DOMAIN context.buffer
    /\ \A i \in DOMAIN context.buffer :
          i # context.ptr => context'.buffer[i] = context.buffer[i]

\* the handle keeps what is unread, or has delivered its first item
InputAdvanced ==
    /\ context'.input_file.kind = context.input_file.kind
    /\ \/ context'.input_file.data = context.input_file.data
       \/ /\ context.input_file.data # <<>>
          /\ context'.input_file.data = Tail(context.input_file.data)

\* C18: besides the one budget unit each leaf changes only its own part of
\* the state: Increment and Decrement only the cell under the pointer; the
\* two Moves only the pointer; Print appends exactly one byte, the cell
\* under the pointer, to the output and leaves tape, pointer and input
\* alone; Read changes only the cell under the pointer and the position of
\* the input.
C18_LeafFrames ==
    [][ /\ (\E kind \in LeafKinds : RanLeaf(kind)) =>
               context'.num_cycles_left = context.num_cycles_left - 1
        /\ (RanLeaf("PlusNode") \/ RanLeaf("MinusNode")) =>
               /\ OtherCellsKept
               /\ context'.ptr = context.ptr
               /\ context'.input_file = context.input_file
               /\ context'.output_file = context.output_file
        /\ (RanLeaf("ForwardNode") \/ RanLeaf("BackwardNode")) =>
               /\ context'.buffer = context.buffer
               /\ context'.input_file = context.input_file
               /\ context'.output_file = context.output_file
        /\ RanLeaf("PrintNode") =>
               /\ context'.buffer = context.buffer
               /\ context'.ptr = context.ptr
               /\ context'.input_file = context.input_file
               /\ context'.output_file.sink = Append(Sink, Cell)
        /\ RanLeaf("ReadNode") =>
               /\ OtherCellsKept
               /\ context'.ptr = context.ptr
               /\ context'.output_file = context.output_file
               /\ InputAdvanced ]_vars

(***************************************************************************)
(* The cell a Loop leaves behind.                                          *)
(***************************************************************************)
\* the innermost frame is a Block whose last child run, a Loop, has returned
AfterLoop ==
    /\ pc = "exec"
    /\ stack # <<>>
    /\ Top.node.kind = "CodeBlockNode"
    /\ Top.i >= 2
    /\ Top.node.child_nodes[Top.i - 1].kind = "WhileNode"

\* frame k is a Loop that follows another Loop directly in its Block
LoopAfterLoop(k) ==
    /\ k >= 2
    /\ stack[k].node.kind = "WhileNode"
    /\ stack[k - 1].node.kind = "CodeBlockNode"
    /\ stack[k - 1].i >= 3
    /\ stack[k - 1].node.child_nodes[stack[k - 1].i - 2].kind = "WhileNode"

\* C19: when a Loop has finished without error the cell under the pointer
\* is 0, so the instruction after "]" starts on a cell of 0; a Loop that
\* directly follows another Loop is at its test on a cell of 0 and never
\* runs its body.
C19_LoopLeavesZero ==
    /\ AfterLoop => Cell = 0
    /\ pc = "exec" =>
         \A k \in 1..Len(stack) :
            LoopAfterLoop(k) => (k = Len(stack) /\ Cell = 0)

\* C19 witness: in +[-][.]. the first Loop has run a pass and returned, and
\* the second Loop is at its test.
C19_SecondLoopAtTest ==
    /\ code = <<"+", "[", "-", "]", "[", ".", "]", ".">>
    /\ AtLoopTest
    /\ LoopAfterLoop(Len(stack))
    /\ leaves_run = 2
    /\ Cell = 0

(***************************************************************************)
(* The tree written back as a source.                                      *)
(***************************************************************************)
\* the token of a leaf node
LeafToken(kind) ==
    CASE kind = "PlusNode" -> "+"
      [] kind = "MinusNode" -> "-"
      [] kind = "ForwardNode" -> ">"
      [] kind = "BackwardNode" -> "<"
      [] kind = "PrintNode" -> "."
      [] kind = "ReadNode" -> ","

\* the children from index i on, each leaf as its token and each Loop as
\* "[", its Block, "]"
RECURSIVE Unparse(_, _)
Unparse(child_nodes, i) ==
    IF i > Len(child_nodes) THEN <<>>
    ELSE LET n == child_nodes[i]
             head == IF n.kind = "WhileNode"
                     THEN <<"[">> \o Unparse(n.code_block_node.child_nodes, 1)
                                  \o <<"]">>
                     ELSE <<LeafToken(n.kind)>>
         IN  head \o Unparse(child_nodes, i + 1)

Max(S) == CHOOSE m \in S : \A x \in S : x <= m

\* how many Loops lie around the innermost node of a Block
RECURSIVE LoopDepth(_)
LoopDepth(block) ==
    Max({0} \cup { IF block.child_nodes[i].kind = "WhileNode"
                   THEN 1 + LoopDepth(block.child_nodes[i].code_block_node)
                   ELSE 0 : i \in 1..Len(block.child_nodes) })

\* open brackets minus closed brackets in the first i bytes
Height(c, i) ==
    Cardinality({j \in 1..i : c[j] = "["}) - Cardinality({j \in 1..i : c[j] = "]"})

Balanced(c) ==
    /\ OnlyTokens(c)
    /\ \A i \in 1..Len(c) : Height(c, i) >= 0
    /\ Height(c, Len(c)) = 0

BracketDepth(c) == Max({0} \cup {Height(c, i) : i \in 1..Len(c)})

\* C20: for a balanced source of the eight tokens only, the tree the parse
\* returns written back (each leaf as its token, each Loop as "[" + its
\* Block + "]") is the source byte for byte, and the depth of Loop nesting
\* in the tree is the depth of bracket nesting in the source.
C20_TreeMirrorsSource ==
    (pc = "start" /\ Balanced(code)) =>
        /\ Unparse(code_block.child_nodes, 1) = code
        /\ LoopDepth(code_block) = BracketDepth(code)

\* C20 witness: +[[-]] has been parsed into a Loop in a Loop.
C20_NestedTwice ==
    /\ pc = "start"
    /\ code = <<"+", "[", "[", "-", "]", "]">>
    /\ LoopDepth(code_block) = 2
    /\ Unparse(code_block.child_nodes, 1) = code

====
